---- MODULE Spec2Model ----
(***************************************************************************)
(* The puzzle worker of src/app.ts (the script built by initializeWorker,  *)
(* lines 714-765) and the host side of its request/response protocol.      *)
(*                                                                         *)
(* The worker is sequential JavaScript.  Its two recursive functions,      *)
(* solve and find, are modelled with their call stacks made explicit: one  *)
(* frame per active invocation, one step per placement or return.  Boards  *)
(* are 9x9 and indexed from 0 as in the source.                            *)
(***************************************************************************)
EXTENDS Integers, Sequences, FiniteSets, TLC

\* solve is followed on grids with at most MaxOpen empty cells, and the
\* removal loop of generatePuzzle while at most MaxLeft coordinates are left
\* in its list.
MaxOpen == 27
MaxLeft == 45

\* On one page the host posts at most MaxRequests requests, the selector is
\* changed at most MaxChanges times and selectCell is called at most
\* MaxSelections times; the event beforeunload is followed while selectCell
\* has been called at most MaxSelectionsSaved times.
MaxRequests == 2
MaxChanges == 1
MaxSelections == 2
MaxSelectionsSaved == 0

\* The history of the game holds at most MaxHistory entries and getHint is
\* followed for MaxReveals reveals in one game.
MaxHistory == 1
MaxReveals == 4

VARIABLES
    inbox,          \* messages posted to the worker, not yet handled
    outbox,         \* messages posted by the worker, not yet handled by the host
    wpc,            \* position of the worker in its script
    diff,           \* generatePuzzle: the parameter diff
    grid,           \* generatePuzzle: grid (solve works on it in place)
    solution,       \* generatePuzzle: solution
    cellsToRemove,  \* generatePuzzle: cellsToRemove
    cells,          \* generatePuzzle: cells, the coordinates left in the shuffled list
    cur,            \* generatePuzzle: { r, c } and temp of the current attempt
    solveRet,       \* value returned by the outermost call of solve
    sstack,         \* frames of the active invocations of solve
    boardCopy,      \* hasUniqueSolution: boardCopy, the board find works on
    solutionCount,  \* hasUniqueSolution: solutionCount
    fstack,         \* frames of the active invocations of find
    unique,         \* value returned by hasUniqueSolution
    caller,         \* who called hasUniqueSolution: "generatePuzzle" or "test"
    entry,          \* history: the board as it was when solve, hasUniqueSolution or
                    \* the current attempt of the removal loop began
    tried,          \* history: the coordinates popped from cells so far
    checks,         \* history: the calls of hasUniqueSolution since generatePuzzle began
    accepted,       \* history: the removals the loop of generatePuzzle has kept
    hpc,            \* host: "new" before init has run, "ready" after
    difficulty,     \* host: this.difficulty
    selectedDifficulty, \* host: this.selectedDifficulty
    isLoading,      \* host: this.isLoading
    storage,        \* the entry of localStorage under STORAGE_KEY
    posted,         \* history: the difficulty of every request the host posted
    received,       \* history: the number of empty cells of every puzzle received
    changes,        \* history: the changes of the selector since the page was opened
    gameGrid,       \* host: this.grid
    initialGrid,    \* host: this.initialGrid
    gameSolution,   \* host: this.solution
    notes,          \* host: this.notes, each Set as the sequence of its members
    history,        \* host: this.history
    hintsUsed,      \* host: this.hintsUsed
    isGameWon,      \* host: this.isGameWon
    isNotesMode,    \* host: this.isNotesMode
    selectedCell,   \* host: this.selectedCell
    reveals,        \* history: the cells getHint revealed since the last installation
    selections,     \* history: the calls of selectCell since the page was opened
    last,           \* history: the last operation on the game and the state before it
    validCall       \* a call isValid(board, row, col, num) made by a test, and its result

wvars == <<wpc, diff, grid, solution, cellsToRemove, cells, cur, solveRet, sstack,
           boardCopy, solutionCount, fstack, unique, caller, entry, tried, checks, accepted>>
hvars == <<hpc, difficulty, selectedDifficulty, isLoading, storage, posted, received, changes>>
gvars == <<gameGrid, initialGrid, gameSolution, notes, history, hintsUsed, isGameWon,
           isNotesMode, selectedCell, reveals, selections, last>>
vars == <<inbox, outbox, wvars, hvars, gvars, validCall>>

Idx == 0..8
Digits == 1..9
Difficulties == {"easy", "medium", "hard", "expert", "master"}
NoBoard == [r \in Idx |-> [c \in Idx |-> 0]]
NoCell == [r |-> 0, c |-> 0, temp |-> 0]

(***************************************************************************)
(* Math.random and shuffle, line 715.  Math.random returns any value of    *)
(* [0, 1), so the index j of a turn of the Fisher-Yates loop is any of     *)
(* 0..i, and the array the loop leaves is the given one in any order: the  *)
(* element left at the last index is any of them (the first turn), the one *)
(* before it any of the rest, and so on.  The script reads a shuffled      *)
(* array from one end, element by element (for...of in solve, pop in       *)
(* generatePuzzle) and in no other way.  The model keeps of a shuffled     *)
(* array the elements not yet read, as a set; the element read next is any *)
(* of them.                                                                *)
(***************************************************************************)
shuffle(array) == {array[k] : k \in DOMAIN array}

(* isValid, lines 716-721.  The cell (row, col) itself is among the cells   *)
(* compared, as in the source.                                             *)
isValid(board, row, col, num) ==
    /\ \A i \in 0..8 : ~(board[row][i] = num \/ board[i][col] = num)
    /\ LET startRow == (row \div 3) * 3
           startCol == (col \div 3) * 3
       IN \A i \in 0..2 : \A j \in 0..2 : board[startRow + i][startCol + j] # num

\* The indices r * 9 + c of the empty cells of a board.
emptyIndexes(g) == {i \in 0..80 : g[i \div 9][i % 9] = 0}

\* A variant whose scan leaves out the last row.
firstEmptyShort(board) ==
    LET empty == {i \in emptyIndexes(board) : i < 72}
    IN IF empty = {} THEN -1 ELSE CHOOSE i \in empty : \A m \in empty : i <= m

(* The scan for the first empty cell in row-major order (line 723 in solve, *)
(* line 734 in find): its index r * 9 + c, or -1 when no cell is empty.     *)
firstEmpty(board) ==
    LET empty == emptyIndexes(board)
    IN IF empty = {} THEN -1 ELSE CHOOSE i \in empty : \A m \in empty : i <= m

Top(stack) == stack[Len(stack)]
Pop(stack) == SubSeq(stack, 1, Len(stack) - 1)
SetTop(stack, frame) == [stack EXCEPT ![Len(stack)] = frame]

----------------------------------------------------------------------------
(* solve, lines 722-729.  A frame holds the cell of one invocation and      *)
(* nums, the digits of its shuffled list it has not placed.  While the      *)
(* invocation is in its loop the cells after its own are empty and those    *)
(* before it do not change, so isValid gives the same answer for a digit    *)
(* whenever the loop comes to it: the digit placed next is any digit of     *)
(* nums that isValid accepts, and the digits it refuses are passed over     *)
(* wherever they stand in the list.                                         *)

\* The digits of nums that line 725 places at (r, c) when it comes to them.
validNums(board, r, c, nums) == {num \in nums : isValid(board, r, c, num)}

\* A call solve(grid), the outermost one or a recursive one: lines 723-724.
\* With no empty cell it returns true, and so does every caller (line 725).
SolveCall ==
    /\ wpc = "solve"
    /\ \E i \in {firstEmpty(grid)} :
       IF i = -1
       THEN /\ solveRet' = TRUE
            /\ sstack' = <<>>
            /\ wpc' = "solved"
       ELSE /\ Cardinality(emptyIndexes(grid)) <= MaxOpen
            /\ sstack' = Append(sstack, [r |-> i \div 9, c |-> i % 9,
                                         nums |-> shuffle(<<1, 2, 3, 4, 5, 6, 7, 8, 9>>)])
            /\ wpc' = "solve_loop"
            /\ solveRet' = solveRet
    /\ UNCHANGED <<inbox, outbox, diff, grid, solution, cellsToRemove, cells, cur,
                   boardCopy, solutionCount, fstack, unique, caller, entry, tried, checks, accepted>>
    /\ UNCHANGED <<hvars, gvars, validCall>>

\* Line 725: the next digit of nums that isValid accepts is placed and solve
\* is called on the board.
SolveTry ==
    /\ wpc = "solve_loop"
    /\ \E f \in {Top(sstack)} : \E num \in validNums(grid, f.r, f.c, f.nums) :
          /\ grid' = [grid EXCEPT ![f.r][f.c] = num]
          /\ sstack' = SetTop(sstack, [f EXCEPT !.nums = f.nums \ {num}])
    /\ wpc' = "solve"
    /\ UNCHANGED <<inbox, outbox, diff, solution, cellsToRemove, cells, cur, solveRet,
                   boardCopy, solutionCount, fstack, unique, caller, entry, tried, checks, accepted>>
    /\ UNCHANGED <<hvars, gvars, validCall>>

\* A variant whose caller leaves the abandoned digit in its cell.
SolveFailNoClear ==
    /\ wpc = "solve_loop"
    /\ \E f \in {Top(sstack)} : validNums(grid, f.r, f.c, f.nums) = {}
    /\ sstack' = Pop(sstack)
    /\ IF Len(sstack) = 1
       THEN solveRet' = FALSE /\ wpc' = "solved"
       ELSE solveRet' = solveRet /\ wpc' = "solve_loop"
    /\ UNCHANGED <<inbox, outbox, diff, grid, solution, cellsToRemove, cells, cur,
                   boardCopy, solutionCount, fstack, unique, caller, entry, tried, checks, accepted>>
    /\ UNCHANGED <<hvars, gvars, validCall>>

\* Line 726: no digit is left, the invocation returns false; its caller
\* clears the cell it had filled (line 725) and goes on with its own list.
SolveFail ==
    /\ wpc = "solve_loop"
    /\ \E f \in {Top(sstack)} : validNums(grid, f.r, f.c, f.nums) = {}
    /\ sstack' = Pop(sstack)
    /\ IF Len(sstack) = 1
       THEN /\ solveRet' = FALSE
            /\ wpc' = "solved"
            /\ grid' = grid
       ELSE \E g \in {sstack[Len(sstack) - 1]} :
            /\ grid' = [grid EXCEPT ![g.r][g.c] = 0]
            /\ wpc' = "solve_loop"
            /\ solveRet' = solveRet
    /\ UNCHANGED <<inbox, outbox, diff, solution, cellsToRemove, cells, cur,
                   boardCopy, solutionCount, fstack, unique, caller, entry, tried, checks, accepted>>
    /\ UNCHANGED <<hvars, gvars, validCall>>
----------------------------------------------------------------------------
(* hasUniqueSolution and its inner function find, lines 730-742.  A frame   *)
(* holds the cell (r, c) of one invocation of find and num, the next value  *)
(* of its loop variable.                                                    *)

\* JSON.parse(JSON.stringify(board)): a board of numbers is copied cell by cell.
jsonCopy(board) == [r \in Idx |-> [c \in Idx |-> board[r][c]]]

\* A call find(b): lines 733-735.  With no empty cell it counts one solution
\* and returns at once; otherwise the invocation starts its loop at num = 1.
findCall(b, stack, count) ==
    LET i == firstEmpty(b) IN
    IF i = -1
    THEN [stack |-> stack, count |-> count + 1]
    ELSE [stack |-> Append(stack, [r |-> i \div 9, c |-> i % 9, num |-> 1]), count |-> count]

\* The least value >= num that the loop of line 736 places, 10 if there is none.
nextNum(b, r, c, num) ==
    LET ok == {n \in num..9 : isValid(b, r, c, n)}
    IN IF ok = {} THEN 10 ELSE CHOOSE n \in ok : \A m \in ok : n <= m

\* A variant that stops one solution later.
findLoopConditionLate(num, count) == num <= 9 /\ count <= 2

\* The condition of the loop of line 736: num <= 9 && solutionCount <= 1.
findLoopCondition(num, count) == num <= 9 /\ count <= 1

\* Lines 731, 739, 740: the counter is reset, the board copied, find called.
startUnique(board) ==
    \E b \in {jsonCopy(board)} : \E fc \in {findCall(b, <<>>, 0)} :
    /\ boardCopy' = b
    /\ fstack' = fc.stack
    /\ solutionCount' = fc.count
    /\ wpc' = IF fc.stack = <<>> THEN "find_ret" ELSE "find"

UniqueCall ==
    /\ wpc = "check"
    /\ startUnique(grid)
    /\ checks' = checks + 1
    /\ UNCHANGED <<inbox, outbox, diff, grid, solution, cellsToRemove, cells, cur,
                   solveRet, sstack, unique, caller, entry, tried, accepted>>
    /\ UNCHANGED <<hvars, gvars, validCall>>

\* A variant that writes the value into the board of the caller as well.
FindTryAlsoBoard ==
    /\ wpc = "find"
    /\ \E f \in {Top(fstack)} : \E n \in {nextNum(boardCopy, f.r, f.c, f.num)} :
          /\ findLoopCondition(n, solutionCount)
          /\ \E b1 \in {[boardCopy EXCEPT ![f.r][f.c] = n]} :
             \E fc \in {findCall(b1, SetTop(fstack, [f EXCEPT !.num = n + 1]), solutionCount)} :
                /\ boardCopy' = b1
                /\ grid' = [grid EXCEPT ![f.r][f.c] = n]
                /\ fstack' = fc.stack
                /\ solutionCount' = fc.count
    /\ UNCHANGED <<inbox, outbox, wpc, diff, solution, cellsToRemove, cells, cur,
                   solveRet, sstack, unique, caller, entry, tried, checks, accepted>>
    /\ UNCHANGED <<hvars, gvars, validCall>>

\* Line 736, one turn of the loop that places a value and calls find.
FindTry ==
    /\ wpc = "find"
    /\ \E f \in {Top(fstack)} : \E n \in {nextNum(boardCopy, f.r, f.c, f.num)} :
          /\ findLoopCondition(n, solutionCount)
          /\ \E b1 \in {[boardCopy EXCEPT ![f.r][f.c] = n]} :
             \E fc \in {findCall(b1, SetTop(fstack, [f EXCEPT !.num = n + 1]), solutionCount)} :
                /\ boardCopy' = b1
                /\ fstack' = fc.stack
                /\ solutionCount' = fc.count
    /\ UNCHANGED <<inbox, outbox, wpc, diff, grid, solution, cellsToRemove, cells, cur,
                   solveRet, sstack, unique, caller, entry, tried, checks, accepted>>
    /\ UNCHANGED <<hvars, gvars, validCall>>

\* Lines 736-737: the loop ends (num past 9, or two solutions counted), the
\* cell is cleared and the invocation returns.
FindReturn ==
    /\ wpc = "find"
    /\ \E f \in {Top(fstack)} :
       /\ ~findLoopCondition(nextNum(boardCopy, f.r, f.c, f.num), solutionCount)
       /\ boardCopy' = [boardCopy EXCEPT ![f.r][f.c] = 0]
    /\ fstack' = Pop(fstack)
    /\ wpc' = IF Len(fstack) = 1 THEN "find_ret" ELSE "find"
    /\ UNCHANGED <<inbox, outbox, diff, grid, solution, cellsToRemove, cells, cur,
                   solveRet, sstack, solutionCount, unique, caller, entry, tried, checks, accepted>>
    /\ UNCHANGED <<hvars, gvars, validCall>>

\* Line 741.
UniqueReturn ==
    /\ wpc = "find_ret"
    /\ unique' = (solutionCount = 1)
    /\ wpc' = IF caller = "test" THEN "tested" ELSE "checked"
    /\ UNCHANGED <<inbox, outbox, diff, grid, solution, cellsToRemove, cells, cur,
                   solveRet, sstack, boardCopy, solutionCount, fstack, caller,
                   entry, tried, checks, accepted>>
    /\ UNCHANGED <<hvars, gvars, validCall>>

----------------------------------------------------------------------------
(* generatePuzzle, lines 743-758, and self.onmessage, lines 759-764.        *)

difficultyMap == [easy |-> 38, medium |-> 46, hard |-> 53, expert |-> 59, master |-> 64]

\* difficultyMap is a plain object: besides its five own keys it answers to
\* the names it inherits from Object.prototype, with a function or an object.
ObjectPrototypeKeys ==
    {"constructor", "hasOwnProperty", "isPrototypeOf", "propertyIsEnumerable",
     "toLocaleString", "toString", "valueOf", "__proto__", "__defineGetter__",
     "__defineSetter__", "__lookupGetter__", "__lookupSetter__"}

\* A value that is not a number.  The script only compares it with 0 (line
\* 750), and the comparison is false; it is kept as -1, which the counter of
\* the loop never takes.
NotANumber == -1

\* A difficulty is the string it is in the script.  A stored difficulty may
\* be any JSON value; the array ["easy"] is kept as its JSON text.
ArrayOfEasy == "[\"easy\"]"

\* The property key of difficultyMap[diff]: diff as a string, which for the
\* array is the string of its one member.
propertyKey(d) == IF d = ArrayOfEasy THEN "easy" ELSE d

\* difficultyMap[diff] || 46, line 748: the number of an own key; the
\* inherited value, which is truthy, for an inherited name; 46 for any other
\* value of diff.
lookup(d) ==
    IF propertyKey(d) \in DOMAIN difficultyMap THEN difficultyMap[propertyKey(d)]
    ELSE IF propertyKey(d) \in ObjectPrototypeKeys THEN NotANumber
    ELSE 46

\* Array.from({ length: 81 }, (_, i) => ({ r: Math.floor(i / 9), c: i % 9 }))
allCells == [i \in 1..81 |-> [r |-> (i - 1) \div 9, c |-> (i - 1) % 9]]

\* Lines 759-761 and 744: a message is taken; for cmd 'generate' generatePuzzle
\* starts on a grid of zeros and calls solve.
OnMessage ==
    /\ wpc = "idle"
    /\ inbox # <<>>
    /\ inbox' = Tail(inbox)
    /\ IF Head(inbox).cmd = "generate"
       THEN /\ diff' = Head(inbox).difficulty
            /\ grid' = NoBoard
            /\ entry' = NoBoard
            /\ wpc' = "solve"
       ELSE UNCHANGED <<diff, grid, entry, wpc>>
    /\ UNCHANGED <<hvars, gvars, validCall>>
    /\ UNCHANGED <<outbox, solution, cellsToRemove, cells, cur, solveRet, sstack,
                   boardCopy, solutionCount, fstack, unique, caller, tried, checks, accepted>>

\* Lines 745-749: the value solve returned is dropped; the grid is copied,
\* the target looked up, the 81 coordinates shuffled.
GenSetup ==
    /\ wpc = "solved"
    /\ caller = "generatePuzzle"
    /\ solution' = jsonCopy(grid)
    /\ cellsToRemove' = lookup(diff)
    /\ cells' = shuffle(allCells)
    /\ tried' = <<>>
    /\ checks' = 0
    /\ accepted' = 0
    /\ wpc' = "loop"
    /\ UNCHANGED <<inbox, outbox, diff, grid, cur, solveRet, sstack, boardCopy,
                   solutionCount, fstack, unique, caller, entry>>
    /\ UNCHANGED <<hvars, gvars, validCall>>

\* A variant that goes on while the target is not below zero.
loopConditionOneMore(cs, n) == cs # {} /\ n >= 0

\* The condition of the while loop, line 750: cells.length > 0 && cellsToRemove > 0.
loopCondition(cs, n) == cs # {} /\ n > 0

\* A variant that reads a coordinate and leaves it in the list.
RemoveBeginNoPop ==
    /\ wpc = "loop"
    /\ loopCondition(cells, cellsToRemove)
    /\ Cardinality(cells) <= MaxLeft
    /\ \E cell \in cells :
       /\ cur' = [r |-> cell.r, c |-> cell.c, temp |-> grid[cell.r][cell.c]]
       /\ grid' = [grid EXCEPT ![cell.r][cell.c] = 0]
       /\ tried' = Append(tried, cell)
    /\ entry' = grid
    /\ wpc' = "check"
    /\ UNCHANGED <<inbox, outbox, diff, solution, cellsToRemove, cells, solveRet, sstack,
                   boardCopy, solutionCount, fstack, unique, caller, checks, accepted>>
    /\ UNCHANGED <<hvars, gvars, validCall>>

\* Lines 750-753: the last coordinate of the shuffled list, which is any of
\* those left, is popped, and the value of its cell kept and cleared.
RemoveBegin ==
    /\ wpc = "loop"
    /\ loopCondition(cells, cellsToRemove)
    /\ Cardinality(cells) <= MaxLeft
    /\ \E cell \in cells :
       /\ cur' = [r |-> cell.r, c |-> cell.c, temp |-> grid[cell.r][cell.c]]
       /\ grid' = [grid EXCEPT ![cell.r][cell.c] = 0]
       /\ tried' = Append(tried, cell)
       /\ cells' = cells \ {cell}
    /\ entry' = grid
    /\ wpc' = "check"
    /\ UNCHANGED <<inbox, outbox, diff, solution, cellsToRemove, solveRet, sstack,
                   boardCopy, solutionCount, fstack, unique, caller, checks, accepted>>
    /\ UNCHANGED <<hvars, gvars, validCall>>

\* A variant that counts every removal as done, whatever the check said.
RemoveEndAlwaysAccept ==
    /\ wpc = "checked"
    /\ cellsToRemove' = cellsToRemove - 1
    /\ accepted' = accepted + 1
    /\ wpc' = "loop"
    /\ UNCHANGED <<inbox, outbox, diff, grid, solution, cells, cur, solveRet, sstack,
                   boardCopy, solutionCount, fstack, unique, caller, entry, tried, checks>>
    /\ UNCHANGED <<hvars, gvars, validCall>>

\* A variant that counts the removal it has put back.
RemoveEndCountsRejected ==
    /\ wpc = "checked"
    /\ grid' = IF ~unique THEN [grid EXCEPT ![cur.r][cur.c] = cur.temp] ELSE grid
    /\ accepted' = IF ~unique THEN accepted ELSE accepted + 1
    /\ cellsToRemove' = cellsToRemove - 1
    /\ wpc' = "loop"
    /\ UNCHANGED <<inbox, outbox, diff, solution, cells, cur, solveRet, sstack,
                   boardCopy, solutionCount, fstack, unique, caller, entry, tried, checks>>
    /\ UNCHANGED <<hvars, gvars, validCall>>

\* A variant that puts back the successor of the digit it took out.
RemoveEndWrongDigit ==
    /\ wpc = "checked"
    /\ IF ~unique
       THEN /\ grid' = [grid EXCEPT ![cur.r][cur.c] = (cur.temp % 9) + 1]
            /\ cellsToRemove' = cellsToRemove
            /\ accepted' = accepted
       ELSE /\ cellsToRemove' = cellsToRemove - 1
            /\ accepted' = accepted + 1
            /\ grid' = grid
    /\ wpc' = "loop"
    /\ UNCHANGED <<inbox, outbox, diff, solution, cells, cur, solveRet, sstack,
                   boardCopy, solutionCount, fstack, unique, caller, entry, tried, checks>>
    /\ UNCHANGED <<hvars, gvars, validCall>>

\* Lines 754-755: a removal that leaves more than one solution, or none, is
\* put back; any other is kept and counted.
RemoveEnd ==
    /\ wpc = "checked"
    /\ IF ~unique
       THEN /\ grid' = [grid EXCEPT ![cur.r][cur.c] = cur.temp]
            /\ cellsToRemove' = cellsToRemove
            /\ accepted' = accepted
       ELSE /\ cellsToRemove' = cellsToRemove - 1
            /\ accepted' = accepted + 1
            /\ grid' = grid
    /\ wpc' = "loop"
    /\ UNCHANGED <<inbox, outbox, diff, solution, cells, cur, solveRet, sstack,
                   boardCopy, solutionCount, fstack, unique, caller, entry, tried, checks>>
    /\ UNCHANGED <<hvars, gvars, validCall>>

\* Lines 757 and 761-762: the loop is over, the pair is returned and posted.
GenReturn ==
    /\ wpc = "loop"
    /\ ~loopCondition(cells, cellsToRemove)
    /\ outbox' = Append(outbox, [puzzle |-> grid, solution |-> solution])
    /\ wpc' = "idle"
    /\ UNCHANGED <<inbox, diff, grid, solution, cellsToRemove, cells, cur, solveRet,
                   sstack, boardCopy, solutionCount, fstack, unique, caller,
                   entry, tried, checks, accepted>>
    /\ UNCHANGED <<hvars, gvars, validCall>>

WorkerNext ==
    \/ OnMessage \/ SolveCall \/ SolveTry \/ SolveFail \/ GenSetup
    \/ RemoveBegin \/ UniqueCall \/ FindTry \/ FindReturn \/ UniqueReturn
    \/ RemoveEnd \/ GenReturn

\* No function of the script is active: no frame, no local has a value yet.
NoCallActive ==
    /\ diff = "medium"
    /\ solution = NoBoard
    /\ cellsToRemove = 0
    /\ cells = {}
    /\ cur = NoCell
    /\ solveRet = FALSE
    /\ sstack = <<>>
    /\ boardCopy = NoBoard
    /\ solutionCount = 0
    /\ fstack = <<>>
    /\ unique = FALSE
    /\ tried = <<>>
    /\ checks = 0
    /\ accepted = 0

WorkerInit ==
    /\ wpc = "idle"
    /\ grid = NoBoard
    /\ entry = NoBoard
    /\ caller = "generatePuzzle"
    /\ NoCallActive
----------------------------------------------------------------------------
(* The host side of the protocol: the fields of SudokuGame that decide what *)
(* is posted to the worker, and the handler of its answers.                 *)

\* An empty array, the value the fields grid, initialGrid, solution, notes and
\* history are initialised with.
NoArray == <<>>

\* null, for selectedCell; getCellClasses (line 244) reads it as row -1, col -1.
NoSelection == [row |-> -1, col |-> -1]

\* Array(9).fill(null).map(() => Array(9).fill(null).map(() => new Set())),
\* lines 778-784.  A Set is the sequence of its members in insertion order.
NoNotes == [r \in Idx |-> [c \in Idx |-> <<>>]]

\* The entry of localStorage under STORAGE_KEY as loadState reads it: whether
\* there is one (saved); what kind of text it is; and, of the text of a
\* game, the fields of GameState (lines 14-23).  The kinds of text are
\*   "game"              the JSON of a GameState that loadState accepts,
\*   "not a game"        a text on which line 847 or line 849 throws: it is not
\*                       JSON, or lacks grid, initialGrid or solution,
\*   "notes unreadable"  the JSON of a GameState with its three grids, on whose
\*                       notes JSON.parse (line 854) or the map (line 855) throws.
\* NoState is the absent entry.
NoState ==
    [saved |-> FALSE, text |-> "", difficulty |-> "medium", grid |-> NoArray,
     initialGrid |-> NoArray, solution |-> NoArray, notes |-> NoArray,
     history |-> NoArray, hintsUsed |-> 0]

\* Nothing has been done to the game yet.
NoOperation ==
    [op |-> "none", grid |-> NoArray, notes |-> NoArray, hintsUsed |-> 0,
     length |-> 0, won |-> FALSE, changed |-> FALSE]

\* The field initialisers, lines 31-47.
HostNew ==
    /\ hpc = "new"
    /\ difficulty = "medium"
    /\ selectedDifficulty = "medium"
    /\ isLoading = TRUE
    /\ posted = <<>>
    /\ received = <<>>
    /\ changes = 0
    /\ gameGrid = NoArray
    /\ initialGrid = NoArray
    /\ gameSolution = NoArray
    /\ notes = NoArray
    /\ history = NoArray
    /\ hintsUsed = 0
    /\ isGameWon = FALSE
    /\ isNotesMode = FALSE
    /\ selectedCell = NoSelection
    /\ reveals = 0
    /\ selections = 0
    /\ last = NoOperation

\* puzzleWorker.postMessage({ cmd: "generate", difficulty }), lines 113-116.
postGenerate(d) ==
    /\ inbox' = Append(inbox, [cmd |-> "generate", difficulty |-> d])
    /\ posted' = Append(posted, d)

\* new Set(cell): the members of the array in the order of their first
\* occurrence.
setFromArray(cell) ==
    LET firsts == {i \in 1..Len(cell) : \A j \in 1..(i - 1) : cell[j] # cell[i]}
        nth(k) == CHOOSE i \in firsts : Cardinality({j \in firsts : j < i}) = k - 1
    IN [k \in 1..Cardinality(firsts) |-> cell[nth(k)]]

\* JSON.stringify(this.notes, (k, v) => v instanceof Set ? [...v] : v), lines
\* 815-817 and 828-830: every Set becomes the array of its members.
stringifyNotes(n) == [r \in DOMAIN n |-> [c \in DOMAIN n[r] |-> [k \in 1..Len(n[r][c]) |-> n[r][c][k]]]]

\* JSON.parse(text).map((row) => row.map((cell) => new Set(cell))), lines
\* 517-518 and 854-855.
parseNotes(text) == [r \in DOMAIN text |-> [c \in DOMAIN text[r] |-> setFromArray(text[r][c])]]

\* init, lines 82-104.  loadState (lines 843-869) takes the fields of a saved
\* game as they are stored, the difficulty included.  When it throws, its
\* catch removes the entry (line 865) and startNewGame(false) posts a request
\* for the difficulty the field holds, as it does when there is no entry; a
\* throw at line 854 or 855 comes after the three grids have been assigned
\* (lines 851-853) and before any other field is.
HostInit ==
    /\ hpc = "new"
    /\ hpc' = "ready"
    /\ IF storage.saved /\ storage.text = "game"
       THEN /\ gameGrid' = storage.grid
            /\ initialGrid' = storage.initialGrid
            /\ gameSolution' = storage.solution
            /\ notes' = parseNotes(storage.notes)
            /\ history' = storage.history
            /\ difficulty' = storage.difficulty
            /\ selectedDifficulty' = storage.difficulty
            /\ hintsUsed' = storage.hintsUsed
            /\ isGameWon' = FALSE
            /\ isLoading' = FALSE
            /\ last' = [NoOperation EXCEPT !.op = "load"]
            /\ UNCHANGED <<inbox, posted, storage>>
       ELSE /\ isLoading' = TRUE
            /\ postGenerate(difficulty)
            /\ storage' = NoState
            /\ IF storage.saved /\ storage.text = "notes unreadable"
               THEN /\ gameGrid' = storage.grid
                    /\ initialGrid' = storage.initialGrid
                    /\ gameSolution' = storage.solution
               ELSE UNCHANGED <<gameGrid, initialGrid, gameSolution>>
            /\ UNCHANGED <<difficulty, selectedDifficulty, notes, history, hintsUsed,
                           isGameWon, last>>
    /\ UNCHANGED <<outbox, received, changes, isNotesMode, selectedCell, reveals, selections>>
    /\ UNCHANGED <<wvars, validCall>>

\* The values of the options of the selector, lines 358-366.
Options == {"easy", "medium", "hard", "expert", "master"}

\* The change handler of the selector, lines 396-399.
SelectDifficulty(d) ==
    /\ hpc = "ready"
    /\ changes < MaxChanges
    /\ selectedDifficulty' = d
    /\ changes' = changes + 1
    /\ UNCHANGED <<inbox, outbox, hpc, difficulty, isLoading, storage, posted, received>>
    /\ UNCHANGED gvars
    /\ UNCHANGED <<wvars, validCall>>

\* startNewGame() with isNew = true, lines 106-117: the click on the start
\* button (lines 594-604), confirmed in the dialog when one is shown.
StartNewGame ==
    /\ hpc = "ready"
    /\ Len(posted) < MaxRequests
    /\ isLoading' = TRUE
    /\ difficulty' = selectedDifficulty
    /\ postGenerate(selectedDifficulty)
    /\ UNCHANGED <<outbox, hpc, selectedDifficulty, storage, received, changes>>
    /\ UNCHANGED gvars
    /\ UNCHANGED <<wvars, validCall>>

\* handleWorkerMessage, lines 771-794.
HandleWorkerMessage ==
    /\ hpc = "ready"
    /\ outbox # <<>>
    /\ outbox' = Tail(outbox)
    /\ gameGrid' = Head(outbox).puzzle
    /\ initialGrid' = jsonCopy(Head(outbox).puzzle)
    /\ gameSolution' = Head(outbox).solution
    /\ notes' = NoNotes
    /\ history' = <<>>
    /\ hintsUsed' = 0
    /\ isGameWon' = FALSE
    /\ isLoading' = FALSE
    /\ selectedCell' = NoSelection
    /\ received' = Append(received, Cardinality({x \in Idx \X Idx : Head(outbox).puzzle[x[1]][x[2]] = 0}))
    /\ reveals' = 0
    /\ last' = [NoOperation EXCEPT !.op = "install"]
    /\ UNCHANGED <<inbox, hpc, difficulty, selectedDifficulty, storage, posted, changes,
                   isNotesMode, selections>>
    /\ UNCHANGED <<wvars, validCall>>

\* The GameState that saveState builds, lines 824-835, as JSON.stringify
\* writes it (line 837).
gameState ==
    [saved |-> TRUE, text |-> "game", difficulty |-> difficulty, grid |-> gameGrid,
     initialGrid |-> initialGrid, solution |-> gameSolution,
     notes |-> stringifyNotes(notes), history |-> history, hintsUsed |-> hintsUsed]

\* saveState, lines 822-841, the listener of beforeunload that init registers
\* (line 86), when it does not return at line 823.  setItem writes the entry,
\* or throws (the storage is full) and the catch of lines 838-840 leaves the
\* entry as it was.  The page goes on handling events afterwards.
SaveState ==
    /\ hpc = "ready"
    /\ selections <= MaxSelectionsSaved
    /\ ~(isGameWon \/ isLoading)
    /\ storage' \in {gameState, storage}
    /\ UNCHANGED <<inbox, outbox, hpc, difficulty, selectedDifficulty, isLoading, posted,
                   received, changes>>
    /\ UNCHANGED gvars
    /\ UNCHANGED <<wvars, validCall>>

----------------------------------------------------------------------------
(* The game on the host: the handlers of the player's input, lines 421-608. *)

\* JSON.parse(JSON.stringify(g)) for a grid of the host, which is an empty
\* array before the first puzzle is installed.
cloneGrid(g) == [r \in DOMAIN g |-> [c \in DOMAIN g[r] |-> g[r][c]]]

\* The state of the game that pushToHistory stores, with the length of the
\* history and isGameWon, as the operation op finds it.
Snapshot(op) ==
    [op |-> op, grid |-> gameGrid, notes |-> notes, hintsUsed |-> hintsUsed,
     length |-> Len(history), won |-> isGameWon, changed |-> FALSE]

\* pushToHistory, lines 812-820: the history with the entry appended.
pushToHistory ==
    Append(history, [grid |-> cloneGrid(gameGrid), notes |-> stringifyNotes(notes),
                     hintsUsed |-> hintsUsed])

\* isSolved of checkForWin, lines 661-663.
isSolved(g, sol) ==
    \A r \in DOMAIN g : \A c \in DOMAIN g[r] : g[r][c] = sol[r][c] /\ g[r][c] # 0

\* checkForWin, lines 660-676, called with the grid g just written.
checkForWin(g) ==
    IF isSolved(g, gameSolution)
    THEN /\ isGameWon' = TRUE
         /\ selectedCell' = NoSelection
         /\ storage' = NoState
    ELSE UNCHANGED <<isGameWon, selectedCell, storage>>

\* The cells a click or an arrow key selects are those that are not given
\* (lines 428 and 488), as indexes r * 9 + c.
freeIndexes ==
    IF initialGrid = NoArray THEN {} ELSE {i \in 0..80 : initialGrid[i \div 9][i % 9] = 0}

\* handleCellClick and selectCell, lines 421-439: a click on, or the focus
\* of, a cell of the grid shown.  The grid is in the page when the last
\* updateUI found isLoading false (lines 148-165).
SelectCell(row, col) ==
    /\ hpc = "ready"
    /\ ~isLoading
    /\ initialGrid[row][col] = 0
    /\ ~isGameWon
    /\ selections < MaxSelections
    /\ selectedCell' = [row |-> row, col |-> col]
    /\ selections' = selections + 1
    /\ UNCHANGED <<gameGrid, initialGrid, gameSolution, notes, history, hintsUsed,
                   isGameWon, isNotesMode, reveals, last>>
    /\ UNCHANGED <<inbox, outbox, wvars, hvars, validCall>>

\* toggleNotesMode, lines 507-511.
ToggleNotesMode ==
    /\ hpc = "ready"
    /\ isNotesMode' = ~isNotesMode
    /\ UNCHANGED <<gameGrid, initialGrid, gameSolution, notes, history, hintsUsed,
                   isGameWon, selectedCell, reveals, selections, last>>
    /\ UNCHANGED <<inbox, outbox, wvars, hvars, validCall>>

\* this.notes[row][col] is a Set: notes has a row of that index and the row a
\* cell of that index.  It has after handleWorkerMessage (lines 778-784); after
\* loadState or undo it has what the stored text had (lines 517-518, 854-855).
\* Where it has not, reading the cell throws a TypeError.
hasNotes(row, col) == row \in DOMAIN notes /\ col \in DOMAIN notes[row]

\* Set.delete and Set.add on a Set kept as the sequence of its members.
setDelete(set, num) == SelectSeq(set, LAMBDA m : m # num)
setHas(set, num) == \E k \in 1..Len(set) : set[k] = num
setToggle(set, num) == IF setHas(set, num) THEN setDelete(set, num) ELSE Append(set, num)

\* The num that the buttons of the numpad (lines 413-418) and the keys (lines
\* 495-498) pass to inputNumber.
Inputs == 0..9

\* A variant for a game whose initialGrid is the array of grid itself: what
\* is written to the grid is written to initialGrid.
InputNumberAliased(num) ==
    /\ hpc = "ready"
    /\ Len(history) < MaxHistory
    /\ selectedCell # NoSelection
    /\ ~isGameWon
    /\ initialGrid[selectedCell.row][selectedCell.col] = 0
    /\ num \in Inputs
    /\ history' = pushToHistory
    /\ last' = Snapshot("move")
    /\ \E row \in {selectedCell.row} : \E col \in {selectedCell.col} :
       IF isNotesMode
       THEN /\ gameGrid' = [gameGrid EXCEPT ![row][col] = 0]
            /\ notes' = IF hasNotes(row, col)
                         THEN [notes EXCEPT ![row][col] =
                                  IF num = 0 THEN <<>> ELSE setToggle(notes[row][col], num)]
                         ELSE notes
            /\ UNCHANGED <<isGameWon, selectedCell, storage>>
       ELSE IF hasNotes(row, col)
            THEN /\ notes' = [notes EXCEPT ![row][col] = <<>>]
                 /\ \E g \in {[gameGrid EXCEPT ![row][col] = num]} :
                       /\ gameGrid' = g
                       /\ checkForWin(g)
            ELSE UNCHANGED <<gameGrid, notes, isGameWon, selectedCell, storage>>
    /\ initialGrid' = gameGrid'
    /\ UNCHANGED <<gameSolution, hintsUsed, isNotesMode, reveals, selections>>
    /\ UNCHANGED <<hpc, difficulty, selectedDifficulty, isLoading, posted, received, changes>>
    /\ UNCHANGED <<inbox, outbox, wvars, validCall>>

\* inputNumber, lines 441-472, when it does not return at line 447.  Where
\* notes has no Set for the cell, the read of lines 455-462 throws: the
\* history is pushed (line 450), in notes mode the cell is emptied (line 453),
\* and nothing else is done.
InputNumber(num) ==
    /\ hpc = "ready"
    /\ Len(history) < MaxHistory
    /\ selectedCell # NoSelection
    /\ ~isGameWon
    /\ initialGrid[selectedCell.row][selectedCell.col] = 0
    /\ num \in Inputs
    /\ history' = pushToHistory
    /\ last' = Snapshot("move")
    /\ \E row \in {selectedCell.row} : \E col \in {selectedCell.col} :
       IF isNotesMode
       THEN /\ gameGrid' = [gameGrid EXCEPT ![row][col] = 0]
            /\ notes' = IF hasNotes(row, col)
                         THEN [notes EXCEPT ![row][col] =
                                  IF num = 0 THEN <<>> ELSE setToggle(notes[row][col], num)]
                         ELSE notes
            /\ UNCHANGED <<isGameWon, selectedCell, storage>>
       ELSE IF hasNotes(row, col)
            THEN /\ notes' = [notes EXCEPT ![row][col] = <<>>]
                 /\ \E g \in {[gameGrid EXCEPT ![row][col] = num]} :
                       /\ gameGrid' = g
                       /\ checkForWin(g)
            ELSE UNCHANGED <<gameGrid, notes, isGameWon, selectedCell, storage>>
    /\ UNCHANGED <<initialGrid, gameSolution, hintsUsed, isNotesMode, reveals, selections>>
    /\ UNCHANGED <<hpc, difficulty, selectedDifficulty, isLoading, posted, received, changes>>
    /\ UNCHANGED <<inbox, outbox, wvars, validCall>>

\* The k-th empty cell of the grid in row-major order, counted from 0, is
\* emptyCells[k] of lines 562-567.
nthIndex(S, k) == CHOOSE i \in S : Cardinality({j \in S : j < i}) = k

\* getHint, lines 560-582, when it does not return at line 561 and finds an
\* empty cell.  Math.floor(Math.random() * emptyCells.length) is any index k
\* of emptyCells.  With the empty array for a grid the scan of line 565
\* throws.  Where notes has no Set for the cell (a stored game whose notes
\* could not be read, while its replacement is loading; a stored game whose
\* notes are a shorter array) line 574 throws: the history is pushed and the
\* cell is written, and lines 575-580 do not run.
GetHint ==
    /\ hpc = "ready"
    /\ Len(history) < MaxHistory
    /\ ~isGameWon
    /\ hintsUsed < 3
    /\ reveals < MaxReveals
    /\ gameGrid # NoArray
    /\ \E E \in {emptyIndexes(gameGrid)} :
       /\ E # {}
       /\ \E k \in 0..(Cardinality(E) - 1) :
          \E i \in {nthIndex(E, k)} :
          \E g \in {[gameGrid EXCEPT ![i \div 9][i % 9] = gameSolution[i \div 9][i % 9]]} :
             /\ gameGrid' = g
             /\ IF ~hasNotes(i \div 9, i % 9)
                THEN UNCHANGED <<notes, hintsUsed, isGameWon, selectedCell, storage>>
                ELSE /\ notes' = [notes EXCEPT ![i \div 9][i % 9] = <<>>]
                     /\ hintsUsed' = hintsUsed + 1
                     /\ checkForWin(g)
    /\ history' = pushToHistory
    /\ reveals' = IF received # <<>> THEN reveals + 1 ELSE reveals
    /\ last' = Snapshot("move")
    /\ UNCHANGED <<initialGrid, gameSolution, isNotesMode, selections>>
    /\ UNCHANGED <<hpc, difficulty, selectedDifficulty, isLoading, posted, received, changes>>
    /\ UNCHANGED <<inbox, outbox, wvars, validCall>>

\* What last records when undo is called: after a move that did not win the
\* game, that the move is being undone, with the state before the move and
\* whether the move changed it; otherwise the state before the call.
undone ==
    IF last.op = "move" /\ ~isGameWon
    THEN [last EXCEPT !.op = "move, undo",
                      !.changed = ~(/\ gameGrid = last.grid
                                    /\ notes = last.notes
                                    /\ hintsUsed = last.hintsUsed)]
    ELSE Snapshot("undo")

\* A variant that does not put the notes back.
UndoKeepsNotes ==
    /\ hpc = "ready"
    /\ last' = undone
    /\ IF Len(history) = 0 \/ isGameWon
       THEN UNCHANGED <<gameGrid, notes, history, hintsUsed>>
       ELSE \E lastState \in {history[Len(history)]} :
            /\ history' = SubSeq(history, 1, Len(history) - 1)
            /\ gameGrid' = lastState.grid
            /\ notes' = notes
            /\ hintsUsed' = lastState.hintsUsed
    /\ UNCHANGED <<initialGrid, gameSolution, isGameWon, isNotesMode, selectedCell,
                   reveals, selections>>
    /\ UNCHANGED <<inbox, outbox, wvars, hvars, validCall>>

\* undo, lines 513-522.  With an empty history or a won game it returns at
\* line 514.
Undo ==
    /\ hpc = "ready"
    /\ last' = undone
    /\ IF Len(history) = 0 \/ isGameWon
       THEN UNCHANGED <<gameGrid, notes, history, hintsUsed>>
       ELSE \E lastState \in {history[Len(history)]} :
            /\ history' = SubSeq(history, 1, Len(history) - 1)
            /\ gameGrid' = lastState.grid
            /\ notes' = parseNotes(lastState.notes)
            /\ hintsUsed' = lastState.hintsUsed
    /\ UNCHANGED <<initialGrid, gameSolution, isGameWon, isNotesMode, selectedCell,
                   reveals, selections>>
    /\ UNCHANGED <<inbox, outbox, wvars, hvars, validCall>>

\* checkSolution, lines 524-558, as far as it changes the game: with a grid
\* that is full and has no cell differing from the solution it calls
\* checkForWin; otherwise it opens a dialog.  With the empty array for a grid
\* the scan of line 530 throws.
CheckSolution ==
    /\ hpc = "ready"
    /\ gameGrid # NoArray
    /\ LET isFull == \A x \in Idx \X Idx : gameGrid[x[1]][x[2]] # 0
           hasErrors == \E x \in Idx \X Idx :
                           /\ gameGrid[x[1]][x[2]] # 0
                           /\ gameGrid[x[1]][x[2]] # gameSolution[x[1]][x[2]]
       IN IF ~hasErrors /\ isFull
          THEN /\ checkForWin(gameGrid)
               /\ last' = Snapshot("check")
          ELSE UNCHANGED <<isGameWon, selectedCell, storage, last>>
    /\ UNCHANGED <<gameGrid, initialGrid, gameSolution, notes, history, hintsUsed,
                   isNotesMode, reveals, selections>>
    /\ UNCHANGED <<hpc, difficulty, selectedDifficulty, isLoading, posted, received, changes>>
    /\ UNCHANGED <<inbox, outbox, wvars, validCall>>

\* solvePuzzle, lines 584-592: the confirmation of the dialog that
\* solvePuzzleConfirm (lines 606-608) opens.
SolvePuzzle ==
    /\ hpc = "ready"
    /\ Len(history) < MaxHistory
    /\ history' = pushToHistory
    /\ gameGrid' = cloneGrid(gameSolution)
    /\ notes' = [r \in DOMAIN notes |-> [c \in DOMAIN notes[r] |-> <<>>]]
    /\ isGameWon' = TRUE
    /\ last' = Snapshot("solve")
    /\ UNCHANGED <<initialGrid, gameSolution, hintsUsed, isNotesMode, selectedCell, reveals, selections>>
    /\ UNCHANGED <<inbox, outbox, wvars, hvars, validCall>>

----------------------------------------------------------------------------
(* Grids and states of the worker that runs of the script pass through.     *)

BaseGrid ==
    LET rows == << <<3, 9, 7, 1, 2, 4, 6, 5, 8>>,
                   <<8, 6, 1, 5, 3, 9, 2, 7, 4>>,
                   <<5, 4, 2, 6, 8, 7, 9, 1, 3>>,
                   <<1, 7, 8, 3, 5, 6, 4, 9, 2>>,
                   <<9, 5, 4, 2, 7, 8, 3, 6, 1>>,
                   <<6, 2, 3, 9, 4, 1, 7, 8, 5>>,
                   <<2, 1, 5, 7, 9, 3, 8, 4, 6>>,
                   <<4, 3, 9, 8, 6, 5, 1, 2, 7>>,
                   <<7, 8, 6, 4, 1, 2, 5, 3, 9>> >>
    IN [r \in Idx |-> [c \in Idx |-> rows[r + 1][c + 1]]]

\* A puzzle the worker posts for medium, with BaseGrid for its solution, and
\* one it posts for easy.
MediumPuzzle ==
    LET rows == << <<3, 0, 0, 1, 0, 4, 6, 0, 0>>,
                   <<0, 6, 1, 0, 3, 9, 0, 0, 4>>,
                   <<0, 0, 0, 6, 8, 0, 0, 1, 3>>,
                   <<1, 7, 8, 0, 5, 0, 0, 0, 0>>,
                   <<9, 0, 0, 0, 7, 8, 0, 6, 0>>,
                   <<6, 0, 3, 0, 4, 0, 7, 0, 5>>,
                   <<2, 0, 5, 0, 0, 0, 8, 4, 0>>,
                   <<0, 0, 9, 0, 0, 5, 0, 0, 0>>,
                   <<0, 0, 6, 4, 0, 0, 0, 0, 9>> >>
    IN [r \in Idx |-> [c \in Idx |-> rows[r + 1][c + 1]]]

EasyPuzzle ==
    LET rows == << <<8, 6, 9, 0, 0, 3, 1, 0, 0>>,
                   <<0, 5, 2, 6, 0, 0, 0, 0, 3>>,
                   <<4, 0, 0, 0, 8, 0, 5, 6, 7>>,
                   <<0, 0, 6, 0, 0, 0, 4, 5, 9>>,
                   <<9, 0, 1, 5, 7, 6, 0, 0, 8>>,
                   <<0, 2, 8, 3, 4, 9, 7, 1, 6>>,
                   <<0, 0, 0, 1, 9, 7, 2, 0, 0>>,
                   <<0, 0, 0, 0, 0, 0, 9, 8, 0>>,
                   <<1, 9, 0, 0, 3, 0, 0, 7, 5>> >>
    IN [r \in Idx |-> [c \in Idx |-> rows[r + 1][c + 1]]]

\* Coordinates in an order in which the loop of generatePuzzle may pop them
\* and keep every removal, the solution being BaseGrid: the 46 empty cells of
\* MediumPuzzle and twelve more.  Every grid on the way has one solution; the
\* last has 58 empty cells and none of its 23 digits can be removed.
RemovalOrder ==
    << <<0, 1>>, <<0, 2>>, <<0, 4>>, <<0, 7>>, <<0, 8>>, <<1, 0>>, <<1, 3>>, <<1, 6>>,
       <<1, 7>>, <<2, 0>>, <<2, 1>>, <<2, 2>>, <<2, 5>>, <<2, 6>>, <<3, 3>>, <<3, 5>>,
       <<3, 6>>, <<3, 7>>, <<3, 8>>, <<4, 1>>, <<4, 2>>, <<4, 3>>, <<4, 6>>, <<4, 8>>,
       <<5, 1>>, <<5, 3>>, <<5, 5>>, <<5, 7>>, <<6, 1>>, <<6, 3>>, <<6, 4>>, <<6, 5>>,
       <<6, 8>>, <<7, 0>>, <<7, 1>>, <<7, 3>>, <<7, 4>>, <<7, 6>>, <<7, 7>>, <<7, 8>>,
       <<8, 0>>, <<8, 1>>, <<8, 4>>, <<8, 5>>, <<8, 6>>, <<8, 7>>, <<8, 3>>, <<5, 2>>,
       <<0, 5>>, <<6, 7>>, <<8, 2>>, <<2, 4>>, <<2, 7>>, <<6, 6>>, <<5, 0>>, <<1, 4>>,
       <<3, 1>>, <<1, 1>> >>

\* BaseGrid after the first n removals of RemovalOrder.
Cleared(n) ==
    [r \in Idx |-> [c \in Idx |->
        IF \E k \in 1..n : RemovalOrder[k] = <<r, c>> THEN 0 ELSE BaseGrid[r][c]]]

\* The coordinates of the digits of a board.
Clues(board) == {x \in Idx \X Idx : board[x[1]][x[2]] # 0}

\* The members of a set of coordinates as objects { r, c }, in row-major order.
cellsOf(S) ==
    LET nth(k) == CHOOSE x \in S : Cardinality({y \in S : y[1] * 9 + y[2] < x[1] * 9 + x[2]}) = k - 1
    IN [k \in 1..Cardinality(S) |-> [r |-> nth(k)[1], c |-> nth(k)[2]]]

\* Heads of the while loop late in a generation: the first kept removals of
\* RemovalOrder have been popped and kept, then the digits outside left were
\* popped and put back, as each of them leaves a grid with two solutions;
\* left are the coordinates still in the list.  Every digit whose removal
\* leaves one solution is in left, since a removal that was put back when the
\* grid had more digits would be put back now.  For easy, medium and hard one
\* removal is missing and left holds exactly those digits; for expert two are
\* missing and left holds the one digit that can be removed and one that
\* cannot; for master six are missing and left holds one digit, which cannot
\* be removed.
LoopHeads ==
    {[difficulty |-> "easy", kept |-> 37,
      left |-> Clues(Cleared(37)) \ {<<1, 8>>, <<2, 3>>, <<5, 8>>}],
     [difficulty |-> "medium", kept |-> 45,
      left |-> Clues(Cleared(45)) \ {<<1, 8>>, <<2, 3>>, <<5, 8>>}],
     [difficulty |-> "hard", kept |-> 52,
      left |-> {<<0, 6>>, <<1, 1>>, <<1, 2>>, <<1, 4>>, <<2, 7>>, <<2, 8>>,
                <<3, 0>>, <<3, 1>>, <<5, 0>>, <<5, 6>>, <<6, 6>>, <<7, 5>>}],
     [difficulty |-> "expert", kept |-> 57, left |-> {<<1, 1>>, <<5, 8>>}],
     [difficulty |-> "master", kept |-> 58, left |-> {<<5, 8>>}]}

\* The worker at the head h of the loop, line 750.
AtLoopHead(h) ==
    \E putBack \in {cellsOf(Clues(Cleared(h.kept)) \ h.left)} :
    \E lastCell \in {putBack[Len(putBack)]} :
    /\ wpc = "loop"
    /\ caller = "generatePuzzle"
    /\ diff = h.difficulty
    /\ grid = Cleared(h.kept)
    /\ entry = Cleared(h.kept)
    /\ solution = BaseGrid
    /\ cellsToRemove = lookup(h.difficulty) - h.kept
    /\ cells = {[r |-> x[1], c |-> x[2]] : x \in h.left}
    /\ tried = [k \in 1..h.kept |-> [r |-> RemovalOrder[k][1], c |-> RemovalOrder[k][2]]] \o putBack
    /\ checks = h.kept + Len(putBack)
    /\ accepted = h.kept
    /\ cur = [r |-> lastCell.r, c |-> lastCell.c, temp |-> BaseGrid[lastCell.r][lastCell.c]]
    /\ unique = FALSE
    /\ solutionCount = 2
    /\ boardCopy = [Cleared(h.kept) EXCEPT ![lastCell.r][lastCell.c] = 0]
    /\ fstack = <<>>
    /\ sstack = <<>>
    /\ solveRet = TRUE

\* The worker in generatePuzzle(d), inside solve: the first seven rows hold
\* the digits of BaseGrid, each placed by the invocation of solve for its
\* cell as the first digit it placed, and solve is called for the next cell.
InSolve(d) ==
    /\ wpc = "solve"
    /\ caller = "generatePuzzle"
    /\ diff = d
    /\ grid = [r \in Idx |-> [c \in Idx |-> IF r < 7 THEN BaseGrid[r][c] ELSE 0]]
    /\ entry = NoBoard
    /\ sstack = [k \in 1..63 |-> [r |-> (k - 1) \div 9, c |-> (k - 1) % 9,
                                  nums |-> Digits \ {BaseGrid[(k - 1) \div 9][(k - 1) % 9]}]]
    /\ solution = NoBoard
    /\ cellsToRemove = 0
    /\ cells = {}
    /\ cur = NoCell
    /\ solveRet = FALSE
    /\ boardCopy = NoBoard
    /\ solutionCount = 0
    /\ fstack = <<>>
    /\ unique = FALSE
    /\ tried = <<>>
    /\ checks = 0
    /\ accepted = 0

----------------------------------------------------------------------------
(* One generation, followed by the test of section 8 of the specification:  *)
(* the uniqueness check applied to the puzzle that was returned.            *)

\* Values of e.data.difficulty that are none of the five: one that is no
\* property of difficultyMap, one that is inherited, and an array.
OtherDifficulties == {"insane", "constructor", ArrayOfEasy}

\* No test has called isValid.
NoValidCall == [board |-> NoBoard, row |-> 0, col |-> 0, num |-> 0, done |-> FALSE, ret |-> FALSE]

\* The worker alone, in a generation: at one of the heads of the loop, or
\* inside solve for any value of the difficulty, with or without a second
\* request waiting.
InitGen ==
    /\ HostNew /\ storage = NoState
    /\ validCall = NoValidCall
    /\ outbox = <<>>
    /\ \/ inbox = <<>> /\ \E h \in LoopHeads : AtLoopHead(h)
       \/ /\ inbox \in {<<>>, <<[cmd |-> "generate", difficulty |-> "easy"]>>}
          /\ \E d \in Difficulties \cup OtherDifficulties : InSolve(d)

TestReturned ==
    /\ wpc = "idle"
    /\ caller = "generatePuzzle"
    /\ inbox = <<>>
    /\ outbox # <<>>
    /\ caller' = "test"
    /\ startUnique(Head(outbox).puzzle)
    /\ UNCHANGED <<inbox, outbox, diff, grid, solution, cellsToRemove, cells, cur,
                   solveRet, sstack, unique, entry, tried, checks, accepted>>
    /\ UNCHANGED <<hvars, gvars, validCall>>

NextGen == WorkerNext \/ TestReturned

SpecGen == InitGen /\ [][NextGen]_vars

\* The worker is a thread of its own: a step it can take, it takes.
FairSpecGen == InitGen /\ [][WorkerNext]_vars /\ WF_vars(WorkerNext)

----------------------------------------------------------------------------
(* solve and hasUniqueSolution called on given grids, edits of BaseGrid.    *)

\* Two swap patterns of BaseGrid: rows 0 and 5 hold 5, 8 and 8, 5 in columns
\* 7 and 8; rows 6 and 7 hold 2, 4 and 4, 2 in columns 0 and 7.
SwapCells == {<<0, 7>>, <<0, 8>>, <<5, 7>>, <<5, 8>>}
Region == SwapCells \cup {<<6, 0>>, <<6, 7>>, <<7, 0>>, <<7, 7>>}

\* The sets of cells cleared: every single cell, every part of Region.
ClearSets == {{x} : x \in Idx \X Idx} \cup SUBSET Region

\* The grid b with the cells of S cleared and then each cell of the domain of
\* put set to the value put gives it.
Edit(b, S, put) ==
    [r \in Idx |-> [c \in Idx |->
        IF <<r, c>> \in DOMAIN put THEN put[<<r, c>>]
        ELSE IF <<r, c>> \in S THEN 0 ELSE b[r][c]]]

\* Nothing more; or the 9 of row 7 moved to column 8, above the cleared 9 of
\* row 8, which leaves cell (8, 8) without a digit while the filled cells
\* stay consistent; or a second 9 put into row 0.
NoPut == [x \in {} |-> 0]
DeadPut == (<<7, 2>> :> 0) @@ (<<7, 8>> :> 9) @@ (<<8, 8>> :> 0)
DuplicatePut == (<<0, 0>> :> 9)

\* No two cells of a row, a column or a box hold the same digit.
Consistent(board) ==
    \A r1, c1, r2, c2 \in Idx :
        (/\ <<r1, c1>> # <<r2, c2>>
         /\ board[r1][c1] # 0
         /\ board[r1][c1] = board[r2][c2])
        => ~(\/ r1 = r2
             \/ c1 = c2
             \/ (r1 \div 3 = r2 \div 3 /\ c1 \div 3 = c2 \div 3))

ConsistentInputs == {Edit(BaseGrid, S, put) : S \in ClearSets, put \in {NoPut, DeadPut}}

\* The grids solve is called on: the consistent edits of BaseGrid, and
\* BaseGrid without its last rows, without the first removals of
\* RemovalOrder, and without both.
SolveInputs ==
    ConsistentInputs
    \cup {[r \in Idx |-> [c \in Idx |-> IF r < 9 - n THEN BaseGrid[r][c] ELSE 0]] : n \in 1..(MaxOpen \div 9)}
    \cup {Cleared(n) : n \in 1..MaxOpen}

\* A test calls solve(board) on one of the grids.
InitSolve ==
    /\ NoCallActive
    /\ HostNew /\ storage = NoState
    /\ validCall = NoValidCall
    /\ inbox = <<>> /\ outbox = <<>>
    /\ caller = "test"
    /\ wpc = "solve"
    /\ grid \in SolveInputs
    /\ entry = grid

NextSolve == SolveCall \/ SolveTry \/ SolveFail

SpecSolve == InitSolve /\ [][NextSolve]_vars

\* A test calls hasUniqueSolution(board) on one of the consistent grids.
InitUnique ==
    /\ NoCallActive
    /\ HostNew /\ storage = NoState
    /\ validCall = NoValidCall
    /\ inbox = <<>> /\ outbox = <<>>
    /\ caller = "test"
    /\ wpc = "check"
    /\ grid \in ConsistentInputs
    /\ entry = grid

NextUnique == UniqueCall \/ FindTry \/ FindReturn \/ UniqueReturn

SpecUnique == InitUnique /\ [][NextUnique]_vars

----------------------------------------------------------------------------
(* isValid called on given boards: the empty one, a solved one, the two     *)
(* puzzles, and a full board with a duplicate.                              *)

ValidBoards ==
    {NoBoard, BaseGrid, MediumPuzzle, EasyPuzzle, Edit(BaseGrid, {}, DuplicatePut)}

\* A test is about to call isValid(board, row, col, num).
InitValid ==
    /\ WorkerInit
    /\ HostNew /\ storage = NoState
    /\ inbox = <<>> /\ outbox = <<>>
    /\ validCall \in [board : ValidBoards, row : Idx, col : Idx, num : Digits,
                       done : {FALSE}, ret : {FALSE}]

\* The call and its return.
CallIsValid ==
    /\ ~validCall.done
    /\ validCall' = [validCall EXCEPT
                        !.done = TRUE,
                        !.ret = isValid(validCall.board, validCall.row, validCall.col,
                                        validCall.num)]
    /\ UNCHANGED <<inbox, outbox, wvars, hvars, gvars>>

NextValid == CallIsValid

SpecValid == InitValid /\ [][NextValid]_vars
----------------------------------------------------------------------------
(* The page as a whole: init, every handler of the host, and the worker.    *)

\* BaseGrid as a puzzle with two free cells.
SmallPuzzle == [BaseGrid EXCEPT ![0][0] = 0, ![0][1] = 0]

\* Entries of localStorage that hold a game: the small puzzle with the note 1
\* on its first free cell and the notes 2 and 1, added in this order, on its
\* second; the same with notes that are a shorter array than
\* the grid, "[[[1]]]", which loadState accepts (lines 854-855); the small
\* puzzle as saveState writes it after the digit 5 was put into its first
\* free cell; and a full grid stored with the difficulty d.
SavedSmall ==
    [saved |-> TRUE, text |-> "game", difficulty |-> "easy", grid |-> SmallPuzzle,
     initialGrid |-> SmallPuzzle, solution |-> BaseGrid,
     notes |-> stringifyNotes([NoNotes EXCEPT ![0][0] = <<1>>, ![0][1] = <<2, 1>>]),
     history |-> <<>>,
     hintsUsed |-> 0]
SavedShortNotes == [SavedSmall EXCEPT !.notes = [r \in {0} |-> [c \in {0} |-> <<1>>]]]
SavedAfterMove ==
    [SavedSmall EXCEPT !.grid = [SmallPuzzle EXCEPT ![0][0] = 5],
                       !.notes = stringifyNotes([NoNotes EXCEPT ![0][1] = <<2, 1>>]),
                       !.history = <<[grid |-> SmallPuzzle, notes |-> SavedSmall.notes,
                                      hintsUsed |-> 0]>>]
SavedFull(d) ==
    [SavedSmall EXCEPT !.difficulty = d, !.grid = BaseGrid, !.initialGrid = BaseGrid,
                       !.notes = stringifyNotes(NoNotes)]

\* localStorage is an input of the page: init may find any text in it.  The
\* pages followed from their construction find no entry, a text that is not
\* a game, a game whose notes cannot be read, or one of the games above.
StoredEntries ==
    {NoState,
     [NoState EXCEPT !.saved = TRUE, !.text = "not a game"],
     [SavedSmall EXCEPT !.text = "notes unreadable"],
     SavedSmall, SavedShortNotes, SavedAfterMove,
     SavedFull("insane"), SavedFull("constructor"), SavedFull(ArrayOfEasy)}

\* The page has been constructed and init has not run.
Opened ==
    /\ WorkerInit
    /\ HostNew
    /\ storage \in StoredEntries
    /\ inbox = <<>>
    /\ outbox = <<>>

\* The host after init loaded SavedSmall and the player selected both free
\* cells, had the puzzle solved and checked, clicked Start, set the selector
\* to medium and clicked Start again: two requests are posted, for easy and
\* for medium, and none is answered.
TwoStarts ==
    /\ hpc = "ready"
    /\ difficulty = "medium"
    /\ selectedDifficulty = "medium"
    /\ isLoading = TRUE
    /\ storage = NoState
    /\ posted = <<"easy", "medium">>
    /\ received = <<>>
    /\ changes = 1
    /\ gameGrid = BaseGrid
    /\ initialGrid = SmallPuzzle
    /\ gameSolution = BaseGrid
    /\ notes = NoNotes
    /\ history = <<[grid |-> SmallPuzzle, notes |-> SavedSmall.notes, hintsUsed |-> 0]>>
    /\ hintsUsed = 0
    /\ isGameWon = TRUE
    /\ isNotesMode = FALSE
    /\ selectedCell = NoSelection
    /\ reveals = 0
    /\ selections = 2
    /\ last = [op |-> "check", grid |-> BaseGrid, notes |-> NoNotes, hintsUsed |-> 0,
               length |-> 1, won |-> TRUE, changed |-> FALSE]
    /\ inbox = <<[cmd |-> "generate", difficulty |-> "medium"]>>
    /\ outbox = <<>>

\* The host after init found no entry and posted its request for medium, the
\* puzzle MediumPuzzle was installed, the player selected s of its cells, had
\* it solved and checked, set the selector to d and clicked Start: the second
\* request is posted and not answered.
SecondStart(s, d) ==
    /\ hpc = "ready"
    /\ difficulty = d
    /\ selectedDifficulty = d
    /\ isLoading = TRUE
    /\ storage = NoState
    /\ posted = <<"medium", d>>
    /\ received = <<46>>
    /\ changes = 1
    /\ gameGrid = BaseGrid
    /\ initialGrid = MediumPuzzle
    /\ gameSolution = BaseGrid
    /\ notes = NoNotes
    /\ history = <<[grid |-> MediumPuzzle, notes |-> stringifyNotes(NoNotes), hintsUsed |-> 0]>>
    /\ hintsUsed = 0
    /\ isGameWon = TRUE
    /\ isNotesMode = FALSE
    /\ selectedCell = NoSelection
    /\ reveals = 0
    /\ selections = s
    /\ last = [op |-> "check", grid |-> BaseGrid, notes |-> NoNotes, hintsUsed |-> 0,
               length |-> 1, won |-> TRUE, changed |-> FALSE]
    /\ inbox = <<>>
    /\ outbox = <<>>

\* The three cells whose removal is put back at Cleared(37) and at every
\* later grid of RemovalOrder.
PutBack == {<<1, 8>>, <<2, 3>>, <<5, 8>>}

\* The worker in generatePuzzle("easy") after the check of its last removal,
\* line 754: the 38 cells of RemovalOrder are cleared, the last of them in
\* this attempt, and the check answered true.
AtLastCheck ==
    \E putBack \in {cellsOf(PutBack)} :
    \E lastCell \in {[r |-> RemovalOrder[38][1], c |-> RemovalOrder[38][2]]} :
    /\ wpc = "checked"
    /\ caller = "generatePuzzle"
    /\ diff = "easy"
    /\ grid = Cleared(38)
    /\ entry = Cleared(37)
    /\ solution = BaseGrid
    /\ cellsToRemove = 1
    /\ cells = {[r |-> x[1], c |-> x[2]] : x \in Clues(Cleared(38)) \ PutBack}
    /\ tried = ([k \in 1..37 |-> [r |-> RemovalOrder[k][1], c |-> RemovalOrder[k][2]]]
                \o putBack) \o <<lastCell>>
    /\ checks = 41
    /\ accepted = 37
    /\ cur = [r |-> lastCell.r, c |-> lastCell.c, temp |-> BaseGrid[lastCell.r][lastCell.c]]
    /\ unique = TRUE
    /\ solutionCount = 1
    /\ boardCopy = Cleared(38)
    /\ fstack = <<>>
    /\ sstack = <<>>
    /\ solveRet = TRUE

\* Pages with a request being served: the first of two, inside solve or
\* after the last check of the loop; the second, after the last check with
\* one selection left to the player, or, for master, at the head of the
\* loop with one coordinate left.
Serving ==
    \/ TwoStarts /\ InSolve("easy")
    \/ TwoStarts /\ AtLastCheck
    \/ SecondStart(1, "easy") /\ AtLastCheck
    \/ SecondStart(2, "master") /\ \E h \in LoopHeads : h.difficulty = "master" /\ AtLoopHead(h)

Init ==
    /\ validCall = NoValidCall
    /\ Opened \/ Serving

Next ==
    \/ HostInit
    \/ \E d \in Options : SelectDifficulty(d)
    \/ StartNewGame
    \/ HandleWorkerMessage
    \/ SaveState
    \/ \E i \in freeIndexes : SelectCell(i \div 9, i % 9)
    \/ ToggleNotesMode
    \/ \E num \in Inputs : InputNumber(num)
    \/ GetHint
    \/ Undo
    \/ CheckSolution
    \/ SolvePuzzle
    \/ WorkerNext

Spec == Init /\ [][Next]_vars
----------------------------------------------------------------------------
(* Properties of one generation.                                            *)

Cells == Idx \X Idx
Holes(board) == Cardinality({x \in Cells : board[x[1]][x[2]] = 0})
SubAssignment(p, s) == \A x \in Cells : p[x[1]][x[2]] # 0 => p[x[1]][x[2]] = s[x[1]][x[2]]

Units ==
    {{<<r, c>> : c \in Idx} : r \in Idx}
    \cup {{<<r, c>> : r \in Idx} : c \in Idx}
    \cup {{<<3 * br + i, 3 * bc + j>> : i \in 0..2, j \in 0..2} : br \in 0..2, bc \in 0..2}

\* Every row, column and box holds each digit exactly once.
ValidComplete(board) ==
    \A u \in Units : \A d \in Digits : Cardinality({x \in u : board[x[1]][x[2]] = d}) = 1

NoDuplicates(seq) == \A i, j \in 1..Len(seq) : i # j => seq[i] # seq[j]

\* generatePuzzle is in its loop, lines 750-756; the attempt of a removal is
\* between the write of line 753 and the decision of line 754.
InRemovalLoop ==
    /\ caller = "generatePuzzle"
    /\ wpc \in {"loop", "check", "find", "find_ret", "checked"}
InAttempt ==
    /\ caller = "generatePuzzle"
    /\ wpc \in {"check", "find", "find_ret", "checked"}
Returned == wpc = "idle" /\ outbox # <<>>

\* C1: the uniqueness check, run on the puzzle generatePuzzle returned, counts
\* exactly one solution and answers true.
C1_ReturnedPuzzleUnique ==
    wpc = "tested" => unique = TRUE /\ solutionCount = 1

\* The puzzle tested has as many empty cells as the difficulty asks for, and
\* removals were put back on the way to it.
C1_Witness ==
    /\ wpc = "tested"
    /\ diff \in Difficulties
    /\ Holes(Head(outbox).puzzle) = difficultyMap[diff]
    /\ Len(tried) > Holes(Head(outbox).puzzle)
    /\ solutionCount = 1

\* C2: at every step of the removal loop, and in every pair posted, each
\* non-empty cell of the puzzle equals the cell of the solution.
C2_SubAssignment ==
    /\ InRemovalLoop => SubAssignment(grid, solution)
    /\ \A i \in 1..Len(outbox) : SubAssignment(outbox[i].puzzle, outbox[i].solution)

C2_Witness ==
    /\ Returned
    /\ Len(tried) > Holes(Head(outbox).puzzle)
    /\ Holes(Head(outbox).puzzle) > 0
    /\ SubAssignment(Head(outbox).puzzle, Head(outbox).solution)

C4_HolesAtMostTarget ==
    Returned /\ diff \in Difficulties =>
        \A i \in 1..Len(outbox) : Holes(outbox[i].puzzle) <= difficultyMap[diff]

\* The list was exhausted before the target was reached.
C4_Witness ==
    /\ Returned
    /\ diff = "expert"
    /\ cells = {}
    /\ Holes(Head(outbox).puzzle) < difficultyMap[diff]

\* C13, as stated: the empty cells of the working grid are, at every point
\* of the removal loop, as many as the removals accepted, the target minus
\* cellsToRemove.
C13_AlwaysEqual ==
    InRemovalLoop /\ cellsToRemove # NotANumber =>
        /\ Holes(grid) = accepted
        /\ accepted = lookup(diff) - cellsToRemove

\* C13, amended: the removals accepted are the target minus cellsToRemove
\* (the target being a number); at the head of the loop and in the puzzle
\* returned the empty cells are as many as the removals accepted, and during
\* an attempt, from the write of line 753 to the decision of line 754, one
\* more; after an attempt whose check did not answer true the grid is the
\* grid before the attempt and no removal was counted; after one whose check
\* answered true it differs from that grid in the cleared cell only.
C13_RejectedRemovalUndone ==
    /\ InRemovalLoop /\ cellsToRemove # NotANumber =>
          accepted = lookup(diff) - cellsToRemove
    /\ caller = "generatePuzzle" /\ wpc = "loop" =>
          /\ Holes(grid) = accepted
          /\ tried # <<>> /\ ~unique => grid = entry
          /\ tried # <<>> /\ unique => grid = [entry EXCEPT ![cur.r][cur.c] = 0]
    /\ InAttempt =>
          /\ Holes(grid) = accepted + 1
          /\ grid = [entry EXCEPT ![cur.r][cur.c] = 0]
          /\ entry[cur.r][cur.c] = cur.temp
    /\ Returned /\ caller = "generatePuzzle" =>
          \A i \in 1..Len(outbox) : Holes(outbox[i].puzzle) = accepted

\* In a generation for expert a removal was accepted and the next one, of
\* the cell in row 5 and column 8, was put back.
C13_Witness ==
    /\ caller = "generatePuzzle"
    /\ wpc = "loop"
    /\ diff = "expert"
    /\ accepted = 58
    /\ cellsToRemove = 1
    /\ ~unique
    /\ solutionCount = 2
    /\ cur = [r |-> 5, c |-> 8, temp |-> BaseGrid[5][8]]
    /\ grid = entry
    /\ grid[5][8] = BaseGrid[5][8]
    /\ Holes(grid) = 58

----------------------------------------------------------------------------
(* Properties of the protocol.                                              *)

\* The requests the worker is serving: one while it is not idle.
Busy == IF wpc = "idle" THEN 0 ELSE 1

\* C6: generatePuzzle runs only for one of the five difficulties, and no
\* puzzle is received for a request with any other value.
C6_InvalidDifficultyRejected ==
    /\ wpc # "idle" => diff \in Difficulties
    /\ \A i \in 1..Len(received) : posted[i] \in Difficulties

\* C14: isLoading is true whenever a request posted by startNewGame has not
\* been answered by the worker, that is, is waiting in the queue of the
\* worker or is being served.
C14_LoadingWhileOutstanding ==
    Len(inbox) + Busy > 0 => isLoading

----------------------------------------------------------------------------
(* Properties of the game.                                                  *)

Installed == received # <<>>

\* A puzzle is on the grid: one the worker posted, or one init loaded.
HasGame == initialGrid # NoArray

GivenCellsKept ==
    \A x \in Cells : initialGrid[x[1]][x[2]] # 0 => gameGrid[x[1]][x[2]] = initialGrid[x[1]][x[2]]

\* C15: once a puzzle is on the grid, installed from a response of the
\* worker or loaded by init, every given cell of the grid holds the
\* value initialGrid gives it, and after init initialGrid and solution
\* change only when a response of the worker is handled.
C15_GivenCellsImmutable ==
    /\ [](HasGame => GivenCellsKept)
    /\ [][hpc = "ready" /\ received' = received =>
            initialGrid' = initialGrid /\ gameSolution' = gameSolution]_vars

\* In the game installed for the second request, a hint was taken and undone
\* and a digit that is not the one of the solution was entered into a free
\* cell that is not the first.
C15_Witness ==
    /\ Len(received) = 2
    /\ initialGrid = Cleared(38)
    /\ gameSolution = BaseGrid
    /\ reveals > 0
    /\ last.op = "move"
    /\ \E x \in Cells :
          /\ 9 * x[1] + x[2] # nthIndex(freeIndexes, 0)
          /\ initialGrid[x[1]][x[2]] = 0
          /\ gameGrid[x[1]][x[2]] \notin {0, gameSolution[x[1]][x[2]]}
    /\ GivenCellsKept

\* C16: in one game getHint reveals at most 3 cells, and hintsUsed is one of
\* 0, 1, 2, 3.
C16_HintLimit ==
    Installed => reveals <= 3 /\ hintsUsed \in 0..3

Same(snapshot) ==
    /\ gameGrid = snapshot.grid
    /\ notes = snapshot.notes
    /\ hintsUsed = snapshot.hintsUsed

----------------------------------------------------------------------------
(* Properties of solve and hasUniqueSolution on given grids.                *)

Peers(x) ==
    {y \in Cells : /\ y # x
                   /\ \/ y[1] = x[1]
                      \/ y[2] = x[2]
                      \/ (y[1] \div 3 = x[1] \div 3 /\ y[2] \div 3 = x[2] \div 3)}

\* The number of ways to fill the empty cells of b so that every row, column
\* and box holds each digit once: the completions are counted cell by cell,
\* over the digits no peer of the cell holds.
RECURSIVE NumCompletions(_), CompletionsFrom(_, _, _)
NumCompletions(b) ==
    LET E == {x \in Cells : b[x[1]][x[2]] = 0}
    IN IF E = {} THEN (IF ValidComplete(b) THEN 1 ELSE 0)
       ELSE CompletionsFrom(b, CHOOSE x \in E : TRUE, 1)
CompletionsFrom(b, x, d) ==
    IF d > 9 THEN 0
    ELSE (IF \A y \in Peers(x) : b[y[1]][y[2]] # d
          THEN NumCompletions([b EXCEPT ![x[1]][x[2]] = d]) ELSE 0)
         + CompletionsFrom(b, x, d + 1)

\* C9: the count never exceeds 2; when the check of a consistent grid ends,
\* the count is the number of completions of the grid, capped at 2, and the
\* value returned is true exactly when the count is 1.
C9_CountIsCappedNumber ==
    /\ solutionCount <= 2
    /\ wpc = "tested" =>
          /\ solutionCount = (IF NumCompletions(grid) < 2 THEN NumCompletions(grid) ELSE 2)
          /\ unique = (solutionCount = 1)

C9_Witness ==
    /\ wpc = "tested"
    /\ Consistent(grid)
    /\ NumCompletions(grid) > 2
    /\ solutionCount = 2
    /\ unique = FALSE

\* C11: isValid returns true exactly when num is held by no cell of the row,
\* the column and the box of (row, col) other than (row, col) itself, for
\* every board and every row, col and num, the cell holding num included.
C11_TrueIffNoOtherCell ==
    validCall.done =>
        (validCall.ret <=>
            \A y \in Peers(<<validCall.row, validCall.col>>) :
                validCall.board[y[1]][y[2]] # validCall.num)

\* C12: the grid passed to hasUniqueSolution is, during the call and after
\* it, cell for cell the grid it was when the call began, whatever the count
\* and the value returned.
C12_CallerGridUnchanged == grid = entry

\* The check of a grid with several empty cells has stopped at the cutoff.
C12_Witness ==
    /\ wpc = "tested"
    /\ Holes(grid) > 1
    /\ solutionCount = 2
    /\ grid = entry

FilledAtEntryKept == \A x \in Cells : entry[x[1]][x[2]] # 0 => grid[x[1]][x[2]] = entry[x[1]][x[2]]

\* C10: for a grid whose filled cells are consistent: after success the grid
\* is full and no row, column or box holds a duplicate; after failure it
\* equals the grid at entry; the cells filled at entry keep their values.
C10_SolveOnPartialGrid ==
    /\ FilledAtEntryKept
    /\ wpc = "solved" /\ solveRet => Holes(grid) = 0 /\ Consistent(grid)
    /\ wpc = "solved" /\ ~solveRet => grid = entry

\* solve has failed on a grid whose first empty cell could be filled.
C10_Witness ==
    /\ wpc = "solved"
    /\ solveRet = FALSE
    /\ Consistent(entry)
    /\ grid = entry
    /\ \E d \in Digits : isValid(entry, firstEmpty(entry) \div 9, firstEmpty(entry) % 9, d)

====
